---- MODULE Spec2Model ----
(***************************************************************************)
(* Model of tilt2transform.py: parse two alignment files (.aln or .xf),    *)
(* estimate one rigid in-plane transform by per-axis medians of the        *)
(* per-image deltas, and write it as a 3x4 IMOD transform.                 *)
(*                                                                         *)
(* Numbers.  Every number read from a file is a whole number n, kept in    *)
(* fixed point with one binary fractional digit (the value n is stored as  *)
(* 2*n), so that the mean of two middle values taken by median() is exact. *)
(* Angles handed to cos/sin are therefore in half degrees.  A value that   *)
(* reaches the formatter is a record [neg, mag]: the sign bit of the float *)
(* and its magnitude rounded to millionths, which is all that the format   *)
(* specification " .6f" looks at.                                          *)
(*                                                                         *)
(* Text.  A line of an input file is the sequence of its whitespace-       *)
(* separated tokens (what line.strip().split() returns); a token is        *)
(* [k, v] with k = "int" (the literal v, accepted by int() and float()),   *)
(* "dec" (the literal v.0, accepted by float() only), "word" (accepted by  *)
(* neither) or "hash" (a word starting with '#').  Output text is a        *)
(* sequence of one-character strings.                                      *)
(***************************************************************************)
EXTENDS Integers, Sequences, FiniteSets, TLC

\* ---------------------------------------------------------------- bounds
\* the longest input file, in lines
MaxLines == 3

\* ---------------------------------------------------------------- tokens
None == "None"

IntTok(n) == [k |-> "int", v |-> n]
DecTok(n) == [k |-> "dec", v |-> n]
WordTok == [k |-> "word", v |-> 0]
HashTok == [k |-> "hash", v |-> 0]

\* int(parts[0]): ValueError unless the token is an integer literal
IntOk(tok) == tok.k = "int"
\* float(tok): ValueError unless the token is a numeric literal
FloatOk(tok) == tok.k \in {"int", "dec"}
\* the float read from a numeric literal, in halves
FloatVal(tok) == 2 * tok.v

Abs(x) == IF x < 0 THEN -x ELSE x
Min(a, b) == IF a <= b THEN a ELSE b

\* `not line or line.startswith('#')` on the stripped line
IsSkipped(line) == Len(line) = 0 \/ line[1].k = "hash"

\* ------------------------------------------------------------- parse_aln
\* the records kept under their position in the file, not under their
\* section index
AlnStoreByPosition(d, parts) ==
    [x \in (DOMAIN d) \cup {Cardinality(DOMAIN d) + 1} |->
        IF x = Cardinality(DOMAIN d) + 1
        THEN [rot |-> FloatVal(parts[2]), tx |-> FloatVal(parts[3]),
              ty |-> FloatVal(parts[4]), tilt |-> FloatVal(parts[5])]
        ELSE d[x]]

\* d[sec] = (rot, tx, ty, tilt): a later line overwrites an earlier one
AlnStore(d, parts) ==
    [x \in (DOMAIN d) \cup {parts[1].v} |->
        IF x = parts[1].v
        THEN [rot |-> FloatVal(parts[2]), tx |-> FloatVal(parts[3]),
              ty |-> FloatVal(parts[4]), tilt |-> FloatVal(parts[5])]
        ELSE d[x]]

\* the try block: int(parts[0]) and float(parts[1..4]) all succeed
AlnFieldsOk(parts) ==
    /\ IntOk(parts[1])
    /\ \A i \in 2..5 : FloatOk(parts[i])

RECURSIVE AlnScanSkipping(_, _, _)
\* parse_aln had it `continue` where it has `break`: a malformed line is
\* skipped and the scan goes on
AlnScanSkipping(file, i, d) ==
    IF i > Len(file) THEN d
    ELSE IF IsSkipped(file[i]) THEN AlnScanSkipping(file, i + 1, d)
    ELSE IF Len(file[i]) < 5 THEN AlnScanSkipping(file, i + 1, d)
    ELSE IF ~AlnFieldsOk(file[i]) THEN AlnScanSkipping(file, i + 1, d)
    ELSE AlnScanSkipping(file, i + 1, AlnStore(d, file[i]))

RECURSIVE AlnScan(_, _, _)
\* the for loop of parse_aln from line i on, with the mapping d built so far
AlnScan(file, i, d) ==
    IF i > Len(file) THEN d
    ELSE IF IsSkipped(file[i]) THEN AlnScan(file, i + 1, d)
    ELSE IF Len(file[i]) < 5 THEN d
    ELSE IF ~AlnFieldsOk(file[i]) THEN d
    ELSE AlnScan(file, i + 1, AlnStore(d, file[i]))

parse_aln(file) == AlnScan(file, 1, <<>>)

\* -------------------------------------------------------------- parse_xf
\* math.degrees(math.atan2(y, x)) for y, x in {-1, 0, 1}, in half degrees
Atan2Deg(y, x) ==
    CASE y = 0 /\ x >= 0 -> 0
      [] y = 0 /\ x < 0 -> 360
      [] y > 0 /\ x > 0 -> 90
      [] y > 0 /\ x = 0 -> 180
      [] y > 0 /\ x < 0 -> 270
      [] y < 0 /\ x > 0 -> -90
      [] y < 0 /\ x = 0 -> -180
      [] y < 0 /\ x < 0 -> -270

\* the entry appended for a line of at least six numeric fields
XfEntry(vals) ==
    [rot |-> Atan2Deg(vals[3].v, vals[1].v),
     dx |-> FloatVal(vals[5]), dy |-> FloatVal(vals[6])]

RECURSIVE XfScanStopping(_, _, _)
\* parse_xf had it `break` where it has `continue`: a short line ends the scan
XfScanStopping(file, i, entries) ==
    IF i > Len(file) THEN [ok |-> TRUE, entries |-> entries]
    ELSE IF IsSkipped(file[i]) THEN XfScanStopping(file, i + 1, entries)
    ELSE IF Len(file[i]) < 6 THEN [ok |-> TRUE, entries |-> entries]
    ELSE IF \E j \in 1..6 : ~FloatOk(file[i][j])
         THEN [ok |-> FALSE, entries |-> <<>>]
    ELSE XfScanStopping(file, i + 1, Append(entries, XfEntry(file[i])))

RECURSIVE XfScan(_, _, _)
\* the for loop of parse_xf from line i on; map(float, vals[:6]) raises
\* ValueError on a field that is not numeric and nothing is returned
XfScan(file, i, entries) ==
    IF i > Len(file) THEN [ok |-> TRUE, entries |-> entries]
    ELSE IF IsSkipped(file[i]) THEN XfScan(file, i + 1, entries)
    ELSE IF Len(file[i]) < 6 THEN XfScan(file, i + 1, entries)
    ELSE IF \E j \in 1..6 : ~FloatOk(file[i][j])
         THEN [ok |-> FALSE, entries |-> <<>>]
    ELSE XfScan(file, i + 1, Append(entries, XfEntry(file[i])))

parse_xf(file) == XfScan(file, 1, <<>>)

\* ---------------------------------------------------------------- median
RECURSIVE Insert(_, _)
Insert(s, x) ==
    IF Len(s) = 0 THEN <<x>>
    ELSE IF x <= s[1] THEN <<x>> \o s
    ELSE <<s[1]>> \o Insert(Tail(s), x)

RECURSIVE Sorted(_)
Sorted(s) == IF Len(s) = 0 THEN <<>> ELSE Insert(Sorted(Tail(s)), s[1])

\* statistics.median: the middle value, or the mean of the two middle ones
median(data) ==
    LET s == Sorted(data)
        n == Len(s)
    IN  IF n % 2 = 1 THEN s[(n \div 2) + 1]
        ELSE (s[n \div 2] + s[(n \div 2) + 1]) \div 2

\* ------------------------------------------------------- build_transform
\* |cos| of a multiple of 15 degrees (given in half degrees), in millionths
CosTable(a) ==
    CASE a = 0 -> 1000000
      [] a = 30 -> 965926
      [] a = 60 -> 866025
      [] a = 90 -> 707107
      [] a = 120 -> 500000
      [] a = 150 -> 258819
      [] a = 180 -> 0

CosMag(a) == IF a <= 180 THEN CosTable(a) ELSE CosTable(360 - a)

\* math.cos(math.radians(dR)) for -180 <= dR <= 180 degrees: cos(90 deg)
\* is the float 6.1e-17, a positive zero to six places
Cos(dR) == [neg |-> Abs(dR) > 180, mag |-> CosMag(Abs(dR))]

\* math.sin(math.radians(dR)): sin(180 deg) is 1.2e-16 and sin(-180 deg)
\* is -1.2e-16, a zero that keeps its sign
Sin(dR) == [neg |-> dR < 0, mag |-> CosMag(Abs(180 - Abs(dR)))]

\* unary minus of a float flips the sign bit, of a zero too
Neg(x) == [neg |-> ~x.neg, mag |-> x.mag]

\* the float holding a fixed-point value, as the formatter sees it
Float(x) == [neg |-> x < 0, mag |-> Abs(x) * 500000]

Digit(n) == <<"0", "1", "2", "3", "4", "5", "6", "7", "8", "9">>[n + 1]

RECURSIVE Decimal(_)
\* the decimal digits of a natural number
Decimal(n) == IF n < 10 THEN <<Digit(n)>> ELSE Decimal(n \div 10) \o <<Digit(n % 10)>>

RECURSIVE Frac(_, _)
\* the last k decimal digits of n, zero padded
Frac(n, k) == IF k = 0 THEN <<>> ELSE Frac(n \div 10, k - 1) \o <<Digit(n % 10)>>

\* the replacement field {x: .6f}: '-' for a set sign bit, else a space
Fmt(x) ==
    <<IF x.neg THEN "-" ELSE " ">> \o Decimal(x.mag \div 1000000)
        \o <<".">> \o Frac(x.mag % 1000000, 6)

\* the literal text 0.000000 of the f-strings
Zero == <<"0", ".", "0", "0", "0", "0", "0", "0">>
Sp == <<" ">>
Nl == <<"\n">>

\* the three f-strings of build_transform
Row0(c, s, dX) == Fmt(c) \o Sp \o Fmt(Neg(s)) \o Sp \o Sp \o Zero \o Sp \o Fmt(dX)
Row1(c, s, dY) == Fmt(s) \o Sp \o Fmt(c) \o Sp \o Sp \o Zero \o Sp \o Fmt(dY)
Row2(zsign) == Zero \o Sp \o Sp \o Zero \o Sp \o Fmt(zsign) \o Sp \o Sp \o Zero

\* zsign had the two branches of its conditional exchanged
ZSignExchanged(flip_z) == [neg |-> ~flip_z, mag |-> 1000000]

\* zsign = -1.0 if flip_z else 1.0
ZSign(flip_z) == [neg |-> flip_z, mag |-> 1000000]

TransformLines(dR, dX, dY, flip_z) ==
    <<Row0(Cos(dR), Sin(dR), Float(dX)),
      Row1(Cos(dR), Sin(dR), Float(dY)),
      Row2(ZSign(flip_z))>>

\* "\n".join(lines) + "\n"
build_transform(dR, dX, dY, flip_z) ==
    LET lines == TransformLines(dR, dX, dY, flip_z)
    IN  lines[1] \o Nl \o lines[2] \o Nl \o lines[3] \o Nl

\* ----------------------------------------------------------- input files
RECURSIVE SeqsUpTo(_, _)
\* the sequences over S of length at most n
SeqsUpTo(S, n) ==
    IF n = 0 THEN {<<>>}
    ELSE LET shorter == SeqsUpTo(S, n - 1)
         IN  shorter \cup {Append(f, x) : f \in {g \in shorter : Len(g) = n - 1}, x \in S}

\* the section indices the record lines carry
Secs == {1, 2, 3}

\* (rot, tx, ty, tilt) of the record lines the .aln files are made of
AlnVals == {<<0, 0, 0, 0>>, <<30, 4, -2, 3>>, <<90, 10, 6, -5>>}

AlnRecLine(sec, r) == <<IntTok(sec), IntTok(r[1]), DecTok(r[2]), IntTok(r[3]), IntTok(r[4])>>

AlnRecLines == {AlnRecLine(sec, r) : sec \in Secs, r \in AlnVals}

BlankLine == <<>>
CommentLine == <<HashTok, WordTok>>
\* a line of three fields, as in the trailer of an AreTomo .aln file
AlnShortLine == <<IntTok(1), IntTok(0), IntTok(0)>>
\* five fields of which the first is no integer literal
AlnBadSecLine == <<DecTok(2), IntTok(0), IntTok(0), IntTok(0), IntTok(0)>>
\* five fields of which one is no number
AlnBadValLine == <<IntTok(2), IntTok(0), WordTok, IntTok(0), IntTok(0)>>

\* a record line with a sixth field, which parse_aln does not look at
AlnLongLine == <<IntTok(3), IntTok(30), IntTok(4), IntTok(-2), IntTok(3), WordTok>>

AlnLines ==
    AlnRecLines \cup {BlankLine, CommentLine, AlnShortLine, AlnBadSecLine,
                      AlnBadValLine, AlnLongLine}

AlnFiles == SeqsUpTo(AlnLines, MaxLines)

\* (a11, a12, a21, a22, dx, dy) of the record lines the .xf files are made of
XfVals == {<<1, 0, 0, 1, 10, 20>>, <<0, -1, 1, 0, 0, 4>>, <<0, 1, -1, 0, -6, 2>>}

XfRecLine(r) == <<IntTok(r[1]), IntTok(r[2]), IntTok(r[3]), IntTok(r[4]), DecTok(r[5]), IntTok(r[6])>>

XfRecLines == {XfRecLine(r) : r \in XfVals}

XfShortLine == <<IntTok(1), IntTok(0), IntTok(0), IntTok(1)>>
XfBadLine == <<IntTok(1), IntTok(0), IntTok(0), IntTok(1), WordTok, IntTok(0)>>

\* a record line with a seventh field, which parse_xf does not look at
XfLongLine == <<IntTok(1), IntTok(0), IntTok(0), IntTok(1), IntTok(10), IntTok(20), WordTok>>

XfLines == XfRecLines \cup {BlankLine, CommentLine, XfShortLine, XfBadLine, XfLongLine}

XfFiles == SeqsUpTo(XfLines, MaxLines)

\* what the two parsers return on the files above: reading a file is
\* parse_aln or parse_xf applied to one of these files
AlnResults == {parse_aln(f) : f \in AlnFiles}
XfResults == {parse_xf(f) : f \in XfFiles}

\* ------------------------------------------------------------------ state
VARIABLES
    args,       \* the parsed command line
    pc,         \* the statement main() is at
    d1, d2,     \* the two parsed .aln mappings
    xf1, xf2,   \* the two parsed .xf sequences
    secs,       \* the sorted common section indices
    drots, dtxs, dtys,
    est,        \* (dR, dX, dY)
    xf_text,    \* the serialized transform
    out,        \* the output file: whether it was opened, and its content
    stdout,     \* the lines printed
    stderr,     \* the message of sys.exit or the uncaught exception
    exitCode,   \* the exit status of the process
    log,        \* the parser calls made so far: <<parser, path>>
    steps,      \* the statements executed so far, in order
    input,      \* the argument of a function called on its own
    result      \* and what it returned

vars == <<args, pc, d1, d2, xf1, xf2, secs, drots, dtxs, dtys, est, xf_text,
          out, stdout, stderr, exitCode, log, steps, input, result>>

mainVars == <<args, pc, d1, d2, xf1, xf2, secs, drots, dtxs, dtys, est, xf_text,
              out, stdout, stderr, exitCode, log, steps>>

dataVars == <<d1, d2, xf1, xf2, secs, drots, dtxs, dtys, est, xf_text>>

\* --tilt-cutoff: the default 5.0 and one other value
DefaultCutoff == 2 * 5
Cutoffs == {DefaultCutoff, 2 * 2}

\* argparse: two required mutually exclusive groups, (--aln1 | --xf1) and
\* (--aln2 | --xf2); an option not given is None
ArgSets ==
    {[aln1 |-> a1, xf1 |-> x1, aln2 |-> a2, xf2 |-> x2, out |-> "out.xf",
      tilt_cutoff |-> c, flip_z |-> z] :
        a1 \in {None, "1.aln"}, x1 \in {None, "1.xf"},
        a2 \in {None, "2.aln"}, x2 \in {None, "2.xf"},
        c \in Cutoffs, z \in BOOLEAN}

ParseArgs ==
    {a \in ArgSets : /\ (a.aln1 = None) # (a.xf1 = None)
                     /\ (a.aln2 = None) # (a.xf2 = None)}

\* the result of a function that was not called yet, and of one that returned
NotCalled == [done |-> FALSE, val |-> <<>>]
Returned(v) == [done |-> TRUE, val |-> v]

\* the state of main() once the command line is parsed
Started ==
    /\ pc = "start"
    /\ d1 = None /\ d2 = None /\ xf1 = None /\ xf2 = None
    /\ secs = None /\ drots = None /\ dtxs = None /\ dtys = None
    /\ est = None /\ xf_text = None
    /\ out = [opened |-> FALSE, text |-> <<>>]
    /\ stdout = <<>>
    /\ stderr = <<>>
    /\ exitCode = None
    /\ log = <<>>
    /\ steps = <<>>

Init ==
    /\ args \in ParseArgs
    /\ Started
    /\ input = None
    /\ result = NotCalled

\* `if args.aln1 and args.aln2`
AlnMode == args.aln1 # None /\ args.aln2 # None

\* a fatal condition that leaves the exit status 0
DieWithStatusZero(msg) ==
    /\ pc' = "exited"
    /\ stderr' = msg
    /\ exitCode' = 0

\* sys.exit(message), or an exception nobody catches: the message (here a
\* tuple of its parts) goes to stderr and the exit status is 1
Die(msg) ==
    /\ pc' = "exited"
    /\ stderr' = msg
    /\ exitCode' = 1

\* what open(path) for reading does: TypeError for None, OSError for a
\* file that cannot be read, else the file is read
OpenError(path, readable) ==
    IF path = None THEN <<"TypeError">>
    ELSE IF ~readable THEN <<"OSError">>
    ELSE <<>>

\* ------------------------------------------------------------- .aln mode
\* d1 = parse_aln(args.aln1)
ParseAln1 ==
    /\ pc = "start" /\ AlnMode
    /\ log' = Append(log, <<"parse_aln", args.aln1>>)
    /\ steps' = Append(steps, "parse1")
    /\ \E readable \in BOOLEAN :
         IF OpenError(args.aln1, readable) # <<>>
         THEN /\ Die(OpenError(args.aln1, readable))
              /\ UNCHANGED d1
         ELSE /\ d1' \in AlnResults
              /\ pc' = "parsed1"
              /\ UNCHANGED <<stderr, exitCode>>
    /\ UNCHANGED <<input, result, args, d2, xf1, xf2, secs, drots, dtxs, dtys, est, xf_text, out, stdout>>

\* d2 = parse_aln(args.aln2)
ParseAln2 ==
    /\ pc = "parsed1" /\ AlnMode
    /\ log' = Append(log, <<"parse_aln", args.aln2>>)
    /\ steps' = Append(steps, "parse2")
    /\ \E readable \in BOOLEAN :
         IF OpenError(args.aln2, readable) # <<>>
         THEN /\ Die(OpenError(args.aln2, readable))
              /\ UNCHANGED d2
         ELSE /\ d2' \in AlnResults
              /\ pc' = "parsed2"
              /\ UNCHANGED <<stderr, exitCode>>
    /\ UNCHANGED <<input, result, args, d1, xf1, xf2, secs, drots, dtxs, dtys, est, xf_text, out, stdout>>

RECURSIVE SortedSeq(_)
\* sorted(S) of a set of integers
SortedSeq(S) ==
    IF S = {} THEN <<>>
    ELSE LET m == CHOOSE x \in S : \A y \in S : x <= y
         IN  <<m>> \o SortedSeq(S \ {m})

\* sorted(set(d1) & set(d2))
CommonSecs(m1, m2) == SortedSeq((DOMAIN m1) \cap (DOMAIN m2))

\* secs = sorted(set(d1) & set(d2)); if not secs: sys.exit(...)
AlnIntersect ==
    /\ pc = "parsed2" /\ AlnMode
    /\ steps' = Append(steps, "intersect")
    /\ secs' = CommonSecs(d1, d2)
    /\ IF Len(secs') = 0
       THEN Die(<<"No common tilt indices in the two .aln files">>)
       ELSE /\ pc' = "matched"
            /\ UNCHANGED <<stderr, exitCode>>
    /\ UNCHANGED <<input, result, args, d1, d2, xf1, xf2, drots, dtxs, dtys, est, xf_text, out, stdout, log>>

\* the cutoff taken on the tilt of the second mapping
PassesCutoffOnSecond(r1, r2, cutoff) == Abs(r2.tilt) <= cutoff

\* `abs(tilt1) <= args.tilt_cutoff`: the tilt of the first mapping only
PassesCutoff(r1, r2, cutoff) == Abs(r1.tilt) <= cutoff

RECURSIVE AlnKept(_, _, _, _)
\* the section indices of ks, in order, that the loop appends a delta for
AlnKept(ks, m1, m2, cutoff) ==
    IF Len(ks) = 0 THEN <<>>
    ELSE IF PassesCutoff(m1[ks[1]], m2[ks[1]], cutoff)
         THEN <<ks[1]>> \o AlnKept(Tail(ks), m1, m2, cutoff)
         ELSE AlnKept(Tail(ks), m1, m2, cutoff)

\* the three delta lists over the kept section indices
AlnDrots(ks, m1, m2) == [i \in 1..Len(ks) |-> m2[ks[i]].rot - m1[ks[i]].rot]
AlnDtxs(ks, m1, m2) == [i \in 1..Len(ks) |-> m2[ks[i]].tx - m1[ks[i]].tx]
AlnDtys(ks, m1, m2) == [i \in 1..Len(ks) |-> m2[ks[i]].ty - m1[ks[i]].ty]

\* dR, dX, dY = median(drots), median(dtxs), median(dtys)
Estimate(rs, xs, ys) == [dR |-> median(rs), dX |-> median(xs), dY |-> median(ys)]

\* the loop over secs, `if not drots: sys.exit(...)`, and the medians
AlnFilter ==
    /\ pc = "matched" /\ AlnMode
    /\ steps' = Append(steps, "estimate")
    /\ LET kept == AlnKept(secs, d1, d2, args.tilt_cutoff)
       IN  /\ drots' = AlnDrots(kept, d1, d2)
           /\ dtxs' = AlnDtxs(kept, d1, d2)
           /\ dtys' = AlnDtys(kept, d1, d2)
    /\ IF Len(drots') = 0
       THEN /\ Die(<<"No entries within of zero-tilt", args.tilt_cutoff>>)
            /\ UNCHANGED est
       ELSE /\ est' = Estimate(drots', dtxs', dtys')
            /\ pc' = "estimated"
            /\ UNCHANGED <<stderr, exitCode>>
    /\ UNCHANGED <<input, result, args, d1, d2, xf1, xf2, secs, xf_text, out, stdout, log>>

\* -------------------------------------------------------------- .xf mode
\* xf1 = parse_xf(args.xf1); the else branch is taken whenever the two
\* .aln options are not both given, so args.xf1 may be None here
ParseXf1 ==
    /\ pc = "start" /\ ~AlnMode
    /\ log' = Append(log, <<"parse_xf", args.xf1>>)
    /\ steps' = Append(steps, "parse1")
    /\ \E readable \in BOOLEAN :
         IF OpenError(args.xf1, readable) # <<>>
         THEN /\ Die(OpenError(args.xf1, readable))
              /\ UNCHANGED xf1
         ELSE \E r \in XfResults :
                IF r.ok
                THEN /\ xf1' = r.entries
                     /\ pc' = "parsed1"
                     /\ UNCHANGED <<stderr, exitCode>>
                ELSE /\ Die(<<"ValueError">>)
                     /\ UNCHANGED xf1
    /\ UNCHANGED <<input, result, args, d1, d2, xf2, secs, drots, dtxs, dtys, est, xf_text, out, stdout>>

\* xf2 = parse_xf(args.xf2)
ParseXf2 ==
    /\ pc = "parsed1" /\ ~AlnMode
    /\ log' = Append(log, <<"parse_xf", args.xf2>>)
    /\ steps' = Append(steps, "parse2")
    /\ \E readable \in BOOLEAN :
         IF OpenError(args.xf2, readable) # <<>>
         THEN /\ Die(OpenError(args.xf2, readable))
              /\ UNCHANGED xf2
         ELSE \E r \in XfResults :
                IF r.ok
                THEN /\ xf2' = r.entries
                     /\ pc' = "parsed2"
                     /\ UNCHANGED <<stderr, exitCode>>
                ELSE /\ Die(<<"ValueError">>)
                     /\ UNCHANGED xf2
    /\ UNCHANGED <<input, result, args, d1, d2, xf1, secs, drots, dtxs, dtys, est, xf_text, out, stdout>>

\* n1, n2 = len(xf1), len(xf2); if n1==0 or n2==0: sys.exit(...)
XfCheck ==
    /\ pc = "parsed2" /\ ~AlnMode
    /\ steps' = Append(steps, "check")
    /\ IF Len(xf1) = 0 \/ Len(xf2) = 0
       THEN Die(<<"Could not parse any entries from one of the .xf files">>)
       ELSE /\ pc' = "matched"
            /\ UNCHANGED <<stderr, exitCode>>
    /\ UNCHANGED <<input, result, args, dataVars, out, stdout, log>>

\* n = min(n1, n2)
XfCount(e1, e2) == Min(Len(e1), Len(e2))

\* the lengths compared one way only
XfMismatchOneWay(e1, e2) == Len(e1) < Len(e2)

\* `if n1 != n2`
XfMismatch(e1, e2) == Len(e1) # Len(e2)

\* the three delta lists over range(n)
XfDrots(e1, e2, n) == [i \in 1..n |-> e2[i].rot - e1[i].rot]
XfDtxs(e1, e2, n) == [i \in 1..n |-> e2[i].dx - e1[i].dx]
XfDtys(e1, e2, n) == [i \in 1..n |-> e2[i].dy - e1[i].dy]

\* the warning, the three comprehensions and the medians
XfDeltas ==
    /\ pc = "matched" /\ ~AlnMode
    /\ steps' = Append(steps, "estimate")
    /\ stdout' = IF XfMismatch(xf1, xf2)
                 THEN Append(stdout, <<"Different lengths", XfCount(xf1, xf2)>>)
                 ELSE stdout
    /\ drots' = XfDrots(xf1, xf2, XfCount(xf1, xf2))
    /\ dtxs' = XfDtxs(xf1, xf2, XfCount(xf1, xf2))
    /\ dtys' = XfDtys(xf1, xf2, XfCount(xf1, xf2))
    /\ est' = Estimate(drots', dtxs', dtys')
    /\ pc' = "estimated"
    /\ UNCHANGED <<input, result, args, d1, d2, xf1, xf2, secs, xf_text, out, stderr, exitCode, log>>

\* ------------------------------------------------------- build and write
\* xf_text = build_transform(dR, dX, dY, args.flip_z)
Build ==
    /\ pc = "estimated"
    /\ steps' = Append(steps, "build")
    /\ xf_text' = build_transform(est.dR, est.dX, est.dY, args.flip_z)
    /\ pc' = "built"
    /\ UNCHANGED <<input, result, args, d1, d2, xf1, xf2, secs, drots, dtxs, dtys, est,
                   out, stdout, stderr, exitCode, log>>

\* with open(args.out, 'w') as f: f.write(xf_text)
Write ==
    /\ pc = "built"
    /\ steps' = Append(steps, "write")
    /\ \E writable \in BOOLEAN :
         IF writable
         THEN /\ out' = [opened |-> TRUE, text |-> xf_text]
              /\ pc' = "written"
              /\ UNCHANGED <<stderr, exitCode>>
         ELSE /\ Die(<<"OSError">>)
              /\ UNCHANGED out
    /\ UNCHANGED <<input, result, args, dataVars, stdout, log>>

\* the two print calls moved before the with block
ReportBeforeWrite ==
    /\ pc = "built"
    /\ steps' = Append(steps, "report")
    /\ stdout' = stdout \o <<<<"Wrote rigid transform to", args.out>>,
                             <<"summary", est, args.flip_z>>>>
    /\ pc' = "done"
    /\ exitCode' = 0
    /\ UNCHANGED <<input, result, args, dataVars, out, stderr, log>>

\* the two print calls, and the normal end of the process
Report ==
    /\ pc = "written"
    /\ steps' = Append(steps, "report")
    /\ stdout' = stdout \o <<<<"Wrote rigid transform to", args.out>>,
                             <<"summary", est, args.flip_z>>>>
    /\ pc' = "done"
    /\ exitCode' = 0
    /\ UNCHANGED <<input, result, args, dataVars, out, stderr, log>>

Next ==
    \/ ParseAln1
    \/ ParseAln2
    \/ AlnIntersect
    \/ AlnFilter
    \/ ParseXf1
    \/ ParseXf2
    \/ XfCheck
    \/ XfDeltas
    \/ Build
    \/ Write
    \/ Report

Spec == Init /\ [][Next]_vars

\* ------------------------------------------- the functions on their own
\* main() is not running: only input and result change
Idle ==
    /\ args = None
    /\ Started

\* parse_aln applied to every file of AlnFiles
InitParseAln ==
    /\ Idle
    /\ input \in AlnFiles
    /\ result = NotCalled

CallParseAln ==
    /\ ~result.done
    /\ result' = Returned(parse_aln(input))
    /\ UNCHANGED <<mainVars, input>>

SpecParseAln == InitParseAln /\ [][CallParseAln]_vars

\* parse_xf applied to every file of XfFiles
InitParseXf ==
    /\ Idle
    /\ input \in XfFiles
    /\ result = NotCalled

CallParseXf ==
    /\ ~result.done
    /\ result' = Returned(parse_xf(input))
    /\ UNCHANGED <<mainVars, input>>

SpecParseXf == InitParseXf /\ [][CallParseXf]_vars

\* the .aln branch of main() on two readable files: the estimate, or the
\* message main() exits with
AlnOutcome(file1, file2, cutoff) ==
    LET m1 == parse_aln(file1)
        m2 == parse_aln(file2)
        ks == CommonSecs(m1, m2)
        kept == AlnKept(ks, m1, m2, cutoff)
    IN  IF Len(ks) = 0
        THEN [exit |-> <<"No common tilt indices in the two .aln files">>, est |-> <<>>]
        ELSE IF Len(kept) = 0
        THEN [exit |-> <<"No entries within of zero-tilt", cutoff>>, est |-> <<>>]
        ELSE [exit |-> <<>>,
              est |-> <<Estimate(AlnDrots(kept, m1, m2), AlnDtxs(kept, m1, m2),
                                 AlnDtys(kept, m1, m2))>>]

\* the well-formed .aln files in ascending order: record lines only, each
\* section index once
AlnAscendingFiles ==
    {f \in SeqsUpTo(AlnRecLines, MaxLines) :
        \A i, j \in 1..Len(f) : i < j => f[i][1].v < f[j][1].v}

\* the .aln branch run on two ascending files, and then the lines of the
\* files exchanged, two at a time
InitShuffle ==
    /\ Idle
    /\ input \in [aln1 : AlnAscendingFiles, aln2 : AlnAscendingFiles, tilt_cutoff : Cutoffs]
    /\ result = NotCalled

RunAscending ==
    /\ ~result.done
    /\ result' = Returned(AlnOutcome(input.aln1, input.aln2, input.tilt_cutoff))
    /\ UNCHANGED <<mainVars, input>>

\* the file with its lines i and i + 1 exchanged
Exchanged(f, i) ==
    [k \in 1..Len(f) |-> IF k = i THEN f[i + 1] ELSE IF k = i + 1 THEN f[i] ELSE f[k]]

ShuffleFirst ==
    /\ result.done
    /\ \E i \in 1..(Len(input.aln1) - 1) :
         input' = [input EXCEPT !.aln1 = Exchanged(input.aln1, i)]
    /\ UNCHANGED <<mainVars, result>>

ShuffleSecond ==
    /\ result.done
    /\ \E i \in 1..(Len(input.aln2) - 1) :
         input' = [input EXCEPT !.aln2 = Exchanged(input.aln2, i)]
    /\ UNCHANGED <<mainVars, result>>

NextShuffle ==
    \/ RunAscending
    \/ ShuffleFirst
    \/ ShuffleSecond

SpecShuffle == InitShuffle /\ [][NextShuffle]_vars

\* build_transform applied to rotations that are multiples of 15 degrees
\* and to whole and half translations
Rotations == {30 * k : k \in -12..12}
Shifts == {-25, -6, 0, 1, 20}

InitBuild ==
    /\ Idle
    /\ input \in [dR : Rotations, dX : Shifts, dY : Shifts, flip_z : BOOLEAN]
    /\ result = NotCalled

CallBuild ==
    /\ ~result.done
    /\ result' = Returned(build_transform(input.dR, input.dX, input.dY, input.flip_z))
    /\ UNCHANGED <<mainVars, input>>

SpecBuild == InitBuild /\ [][CallBuild]_vars

\* ================================================================ claims

\* ---------------------------------------------------------------- C2
\* C2: in .aln mode the estimate (or the failure) does not depend on the
\* order of the record lines of either well-formed file: the run on the
\* shuffled files gives what the run on the ascending files gave.
C2_AlnOrderIndependent ==
    result.done =>
        AlnOutcome(input.aln1, input.aln2, input.tilt_cutoff) = result.val

\* an estimate over three section indices, with both files out of order
C2_Witness ==
    /\ result.done
    /\ result.val.exit = <<>>
    /\ Len(input.aln1) = 3 /\ Len(input.aln2) = 3
    /\ input.aln1[1][1].v > input.aln1[3][1].v
    /\ input.aln2[1][1].v > input.aln2[2][1].v
    /\ input.aln1 # input.aln2
    /\ result.val.est[1].dR # 0

\* ---------------------------------------------------------------- C5
\* a line that is neither blank nor a comment and that has fewer than five
\* fields, or a first field that is no integer, or a non-number among the
\* next four
AlnMalformed(line) ==
    /\ Len(line) > 0
    /\ line[1].k # "hash"
    /\ \/ Len(line) < 5
       \/ line[1].k # "int"
       \/ \E i \in 2..5 : line[i].k \notin {"int", "dec"}

\* the index of the first malformed line, or one past the end of the file
AlnFirstBad(file) ==
    IF \E i \in 1..Len(file) : AlnMalformed(file[i])
    THEN CHOOSE i \in 1..Len(file) :
            /\ AlnMalformed(file[i])
            /\ \A j \in 1..(i - 1) : ~AlnMalformed(file[j])
    ELSE Len(file) + 1

\* the record lines before the first malformed line
AlnValidBefore(file) ==
    {i \in 1..(AlnFirstBad(file) - 1) : Len(file[i]) > 0 /\ file[i][1].k # "hash"}

\* the last of those lines that carries the section index k
AlnLastFor(file, k) ==
    CHOOSE i \in AlnValidBefore(file) :
        /\ file[i][1].v = k
        /\ \A j \in AlnValidBefore(file) : file[j][1].v = k => j <= i

\* C5: parse_aln returns exactly the records of the valid lines that come
\* before the first malformed line (a later line of the same section index
\* replacing an earlier one), and nothing of that line or of any line after
\* it; blank and comment lines do not stop the scan.
C5_AlnStopsAtFirstMalformed ==
    result.done =>
        /\ DOMAIN result.val = {input[i][1].v : i \in AlnValidBefore(input)}
        /\ \A k \in DOMAIN result.val :
             LET line == input[AlnLastFor(input, k)]
             IN  result.val[k] = [rot |-> 2 * line[2].v, tx |-> 2 * line[3].v,
                                  ty |-> 2 * line[4].v, tilt |-> 2 * line[5].v]

\* a record, then a malformed line, then a record of a section index that
\* the result does not hold
C5_Witness ==
    /\ result.done
    /\ \E i, j \in 1..Len(input) :
         /\ 1 < i /\ i < j
         /\ AlnFirstBad(input) = i
         /\ ~AlnMalformed(input[j]) /\ ~IsSkipped(input[j])
         /\ input[j][1].v \notin DOMAIN result.val
         /\ DOMAIN result.val # {}

\* ---------------------------------------------------------------- C6
\* the lines parse_xf makes an entry of: not blank, no comment, six fields
XfQualifies(file) ==
    {i \in 1..Len(file) : Len(file[i]) >= 6 /\ file[i][1].k # "hash"}

\* the j-th of those lines, in file order
XfNth(file, j) ==
    CHOOSE i \in XfQualifies(file) :
        Cardinality({q \in XfQualifies(file) : q <= i}) = j

\* C6: when parse_xf returns, the sequence holds, in file order, one entry
\* for every non-blank, non-comment line of at least six fields, those
\* after a short line included, and nothing for the other lines.
C6_XfSkipsShortLines ==
    (result.done /\ result.val.ok) =>
        /\ Len(result.val.entries) = Cardinality(XfQualifies(input))
        /\ \A j \in 1..Len(result.val.entries) :
             LET line == input[XfNth(input, j)]
             IN  result.val.entries[j] =
                    [rot |-> Atan2Deg(line[3].v, line[1].v),
                     dx |-> 2 * line[5].v, dy |-> 2 * line[6].v]

\* a short line between two lines that each gave an entry
C6_Witness ==
    /\ result.done
    /\ result.val.ok
    /\ Len(result.val.entries) = 2
    /\ \E i \in 2..(Len(input) - 1) :
         /\ Len(input[i]) \in 1..5
         /\ input[i][1].k # "hash"
         /\ (i - 1) \in XfQualifies(input)
         /\ (i + 1) \in XfQualifies(input)

\* ---------------------------------------------------------------- C7
Digits == {"0", "1", "2", "3", "4", "5", "6", "7", "8", "9"}

\* the positions of the newlines of a text
Newlines(text) == {i \in 1..Len(text) : text[i] = "\n"}

\* the j-th line of a text, without its newline
TextLine(text, j) ==
    LET end == CHOOSE i \in Newlines(text) :
                  Cardinality({n \in Newlines(text) : n <= i}) = j
        before == {n \in Newlines(text) : n < end}
        start == IF before = {} THEN 1
                 ELSE (CHOOSE n \in before : \A m \in before : m <= n) + 1
    IN  SubSeq(text, start, end - 1)

\* a sign-aligned value: a space or a minus sign, digits, a point, six digits
IsAlignedField(f) ==
    /\ Len(f) >= 9
    /\ f[1] \in {" ", "-"}
    /\ f[Len(f) - 6] = "."
    /\ \A i \in 2..Len(f) : i # Len(f) - 6 => f[i] \in Digits

\* four sign-aligned values with one space between them
IsAlignedRow(row) ==
    \E p1 \in 1..Len(row) :
        /\ row[p1] = " "
        /\ IsAlignedField(SubSeq(row, 1, p1 - 1))
        /\ \E p2 \in (p1 + 1)..Len(row) :
             /\ row[p2] = " "
             /\ IsAlignedField(SubSeq(row, p1 + 1, p2 - 1))
             /\ \E p3 \in (p2 + 1)..Len(row) :
                  /\ row[p3] = " "
                  /\ IsAlignedField(SubSeq(row, p2 + 1, p3 - 1))
                  /\ IsAlignedField(SubSeq(row, p3 + 1, Len(row)))

\* C7: the serialized transform is three lines and a trailing newline, and
\* each line is four space-separated fields, every one of them with six
\* digits after the point and a space in place of the sign when it is not
\* negative -- the constant fields of all three rows too.
C7_AllFieldsSignAligned ==
    result.done =>
        /\ Cardinality(Newlines(result.val)) = 3
        /\ result.val[Len(result.val)] = "\n"
        /\ \A j \in 1..3 : IsAlignedRow(TextLine(result.val, j))

\* ---------------------------------------------------------------- C9
\* the starts of the whitespace-separated fields of a row
FieldStarts(row) ==
    {i \in 1..Len(row) : row[i] # " " /\ (i = 1 \/ row[i - 1] = " ")}

\* row.split()[k - 1]
RowField(row, k) ==
    LET start == CHOOSE i \in FieldStarts(row) :
                    Cardinality({q \in FieldStarts(row) : q <= i}) = k
        stops == {i \in start..Len(row) : row[i] = " "}
        end == IF stops = {} THEN Len(row)
               ELSE (CHOOSE i \in stops : \A m \in stops : i <= m) - 1
    IN  SubSeq(row, start, end)

\* C9: build_transform with flip_z and without it give the same rows 0 and
\* 1 and the same columns 0, 1 and 3 of row 2; column 2 of row 2 is -1 with
\* flip_z and +1 without.
C9_FlipZOnlyChangesZSign ==
    result.done =>
        LET other == build_transform(input.dR, input.dX, input.dY, ~input.flip_z)
            row == TextLine(result.val, 3)
            orow == TextLine(other, 3)
        IN  /\ TextLine(result.val, 1) = TextLine(other, 1)
            /\ TextLine(result.val, 2) = TextLine(other, 2)
            /\ Cardinality(FieldStarts(row)) = 4
            /\ Cardinality(FieldStarts(orow)) = 4
            /\ \A k \in {1, 2, 4} : RowField(row, k) = RowField(orow, k)
            /\ RowField(row, 3) =
                 IF input.flip_z THEN <<"-", "1", ".", "0", "0", "0", "0", "0", "0">>
                 ELSE <<"1", ".", "0", "0", "0", "0", "0", "0">>
            /\ RowField(orow, 3) # RowField(row, 3)

\* a flipped transform of a rotation by 90 degrees and two shifts
C9_Witness ==
    /\ result.done
    /\ input.flip_z
    /\ input.dR = 180
    /\ input.dX = 20
    /\ input.dY = -6

\* ------------------------------------------------- the runs of main()
Did(step) == \E i \in DOMAIN steps : steps[i] = step
LastStep == steps[Len(steps)]
Finished == pc \in {"done", "exited"}

\* both parser calls have returned
BothParsed == Did("parse2") /\ ~(pc = "exited" /\ LastStep = "parse2")

\* the estimate has been made
Estimated == pc = "estimated" \/ Did("build")

\* ---------------------------------------------------------------- C1
\* the common section indices whose tilt in the first mapping is within
\* the cutoff
AlnFilteredKeys ==
    {k \in (DOMAIN d1) \cap (DOMAIN d2) :
        IF d1[k].tilt < 0 THEN -d1[k].tilt <= args.tilt_cutoff
        ELSE d1[k].tilt <= args.tilt_cutoff}

\* the j-th smallest value of a function, counted with multiplicity
RankValue(f, j) ==
    CHOOSE v \in {f[k] : k \in DOMAIN f} :
        /\ Cardinality({k \in DOMAIN f : f[k] < v}) < j
        /\ j <= Cardinality({k \in DOMAIN f : f[k] <= v})

\* twice the median of the values of a function
TwiceMedian(f) ==
    LET n == Cardinality(DOMAIN f)
    IN  RankValue(f, (n + 1) \div 2) + RankValue(f, (n \div 2) + 1)

\* C1: in .aln mode, when the two parsed mappings share a section index
\* whose tilt in the first mapping is within the cutoff, the estimate is
\* made and is the per-axis median of (rot2-rot1, tx2-tx1, ty2-ty1) over
\* exactly the common section indices whose tilt in the first mapping is
\* within the cutoff, whatever the tilts of the second mapping.
C1_AlnEstimateIsMedianOverFirstTilt ==
    (AlnMode /\ BothParsed /\ AlnFilteredKeys # {}) =>
        /\ pc = "exited" => LastStep = "write"
        /\ Did("estimate") =>
             /\ Estimated
             /\ 2 * est.dR = TwiceMedian([k \in AlnFilteredKeys |-> d2[k].rot - d1[k].rot])
             /\ 2 * est.dX = TwiceMedian([k \in AlnFilteredKeys |-> d2[k].tx - d1[k].tx])
             /\ 2 * est.dY = TwiceMedian([k \in AlnFilteredKeys |-> d2[k].ty - d1[k].ty])

\* a finished run over three common section indices of which one is left
\* out by its first tilt although its second tilt is within the cutoff, and
\* one is kept although its second tilt is beyond the cutoff
C1_Witness ==
    /\ pc = "done"
    /\ AlnMode
    /\ Cardinality(AlnFilteredKeys) = 2
    /\ \E k \in ((DOMAIN d1) \cap (DOMAIN d2)) \ AlnFilteredKeys :
         Abs(d2[k].tilt) <= args.tilt_cutoff
    /\ \E k \in AlnFilteredKeys : Abs(d2[k].tilt) > args.tilt_cutoff
    /\ est.dX # est.dY

\* ---------------------------------------------------------------- C3
\* .xf mode with two parsed sequences that are not empty
XfBothNonEmpty == ~AlnMode /\ BothParsed /\ Len(xf1) > 0 /\ Len(xf2) > 0

XfShorter == IF Len(xf1) < Len(xf2) THEN Len(xf1) ELSE Len(xf2)

\* the deltas are those of the first min(N1, N2) positions
XfDeltasPositional ==
    /\ Len(drots) = XfShorter /\ Len(dtxs) = XfShorter /\ Len(dtys) = XfShorter
    /\ \A i \in 1..XfShorter :
         /\ drots[i] = xf2[i].rot - xf1[i].rot
         /\ dtxs[i] = xf2[i].dx - xf1[i].dx
         /\ dtys[i] = xf2[i].dy - xf1[i].dy

Warned == \E i \in DOMAIN stdout : stdout[i][1] = "Different lengths"

\* the warning is printed exactly when the lengths differ, and names N
XfWarnedIffMismatch ==
    /\ Warned <=> Len(xf1) # Len(xf2)
    /\ \A i \in DOMAIN stdout :
         stdout[i][1] = "Different lengths" => stdout[i][2] = XfShorter

OutputWritten == out.opened /\ out.text = xf_text

\* C3 as stated: every such run ends in success with the output written.
C3_XfRunAlwaysSucceeds ==
    (XfBothNonEmpty /\ Finished) =>
        /\ XfDeltasPositional
        /\ XfWarnedIffMismatch
        /\ pc = "done" /\ exitCode = 0 /\ OutputWritten

\* C3 (amended): in .xf mode with two non-empty parsed sequences the deltas
\* are those of positions 0..min(N1,N2)-1, the warning is printed exactly
\* when N1 # N2, and the run ends in success with the output written,
\* unless the output file cannot be opened for writing, which ends the run
\* with that error and no output.
C3_XfRunSucceedsUnlessOutputUnwritable ==
    (XfBothNonEmpty /\ Finished) =>
        /\ XfDeltasPositional
        /\ XfWarnedIffMismatch
        /\ \/ pc = "done" /\ exitCode = 0 /\ OutputWritten
           \/ /\ pc = "exited" /\ LastStep = "write"
              /\ stderr = <<"OSError">> /\ exitCode = 1 /\ ~out.opened

\* a successful run on sequences of three and of two entries
C3_Witness ==
    /\ pc = "done"
    /\ ~AlnMode
    /\ Len(xf1) = 3 /\ Len(xf2) = 2
    /\ Warned
    /\ OutputWritten

\* ---------------------------------------------------------------- C4
\* C4: the output file is opened only once the transform is built, and a
\* run that ends at a parser call (an unreadable input), at the common
\* index check, at the tilt cutoff check or at the empty .xf check exits
\* non-zero without having opened or written the output file.
C4_NoOutputOnFatal ==
    /\ out.opened => (Did("build") /\ out.text = xf_text)
    /\ (pc = "exited" /\ LastStep \in {"parse1", "parse2", "intersect", "estimate", "check"}) =>
          /\ exitCode # 0
          /\ ~out.opened
          /\ out.text = <<>>

\* a run in .aln mode that found common section indices and none of them
\* within the cutoff
C4_Witness ==
    /\ pc = "exited"
    /\ AlnMode
    /\ LastStep = "estimate"
    /\ stderr[1] = "No entries within of zero-tilt"
    /\ Len(secs) = 3
    /\ ~out.opened

\* ---------------------------------------------------------------- C8
Supplied == {args.aln1, args.xf1, args.aln2, args.xf2} \ {None}

\* C8: in each of the four combinations of input kinds every supplied path
\* is read by the parser of its kind and by no other, no parser is called
\* on a path that was not supplied, and the run ends in success or in a
\* fatal error with a message of the program.
C8_EachPathReadByItsOwnParser ==
    /\ \A i \in DOMAIN log :
         /\ log[i][2] # None
         /\ log[i][1] = "parse_aln" <=> log[i][2] \in {args.aln1, args.aln2}
         /\ log[i][1] = "parse_xf" <=> log[i][2] \in {args.xf1, args.xf2}
    /\ pc = "done" =>
         /\ exitCode = 0
         /\ \A path \in Supplied : \E i \in DOMAIN log : log[i][2] = path
    /\ pc = "exited" =>
         /\ exitCode # 0
         /\ stderr[1] # "TypeError"

\* --------------------------------------------------------------- C10
AlnOrder == <<"parse1", "parse2", "intersect", "estimate", "build", "write", "report">>
XfOrder == <<"parse1", "parse2", "check", "estimate", "build", "write", "report">>

IsPrefix(s, t) == Len(s) <= Len(t) /\ \A i \in 1..Len(s) : s[i] = t[i]

Confirmed == \E i \in DOMAIN stdout : stdout[i][1] \in {"Wrote rigid transform to", "summary"}

\* C10: the statements of a run are executed in one order -- parse input 1,
\* parse input 2, the emptiness checks and the estimate, build, write,
\* report; the mismatch warning comes before the confirmation and summary
\* lines, which are printed only once the output file is written; a run
\* that fails the empty .xf check prints no warning.
C10_FixedOrder ==
    /\ IsPrefix(steps, IF AlnMode THEN AlnOrder ELSE XfOrder)
    /\ Len(log) <= 2
    /\ Len(log) >= 1 => log[1][2] = (IF AlnMode THEN args.aln1 ELSE args.xf1)
    /\ Len(log) = 2 => log[2][2] = (IF AlnMode THEN args.aln2 ELSE args.xf2)
    /\ Len(log) = 2 <=> Did("parse2")
    /\ \A i, j \in DOMAIN stdout :
         (stdout[i][1] = "Different lengths" /\ stdout[j][1] # "Different lengths") => i < j
    /\ Warned => (Did("check") /\ Did("estimate"))
    /\ Confirmed => (Did("write") /\ OutputWritten /\ pc = "done")
    /\ (pc = "exited" /\ LastStep = "check") => stdout = <<>>

\* a finished run that printed the warning, the confirmation and the summary
C10_Witness ==
    /\ pc = "done"
    /\ Len(stdout) = 3
    /\ stdout[1][1] = "Different lengths"
    /\ steps = XfOrder

====
